---- MODULE Spec2Model ----
(***************************************************************************)
(* Model of the SR-Forge pipeline probe (probe_script.py).                 *)
(*                                                                         *)
(* The probe locates a dataset node in a configuration tree, applies path  *)
(* overrides, and recursively probes the node: the first wrapped dataset   *)
(* in params is probed first, then the node is stripped, instantiated by   *)
(* the ConfigResolver, restored, its first entry fetched, and its          *)
(* transforms applied one by one with a snapshot after each.               *)
(*                                                                         *)
(* The recursion of _probe_node is modelled with an explicit call stack.   *)
(* The ConfigResolver, the datasets and the transforms are collaborators   *)
(* outside the script: whether they return or raise, and with which        *)
(* message, is chosen nondeterministically where the script calls them.    *)
(***************************************************************************)
EXTENDS Integers, Sequences, FiniteSets, TLC

\* ---------------------------------------------------------------- bounds
MaxNodes == 3
MaxStages == 3

\* Messages an exception can carry: str(e) may be the empty string
\* (a bare `assert`, `raise ValueError()`), or some text.
Msgs == {"", "boom"}

\* Message of the ValueError OmegaConf.to_container raises on a null value.
NotConfigMsg == "Input cfg is not an OmegaConf config object"

\* ------------------------------------------------------- configuration tree
\* A transforms field value: absent, null, a %{...} reference to a list of n
\* transforms defined elsewhere, or an inline list of n transform configs.
TransVal(k, n) == [k |-> k, n |-> n]
NoT == TransVal("absent", 0)
NullT == TransVal("null", 0)

\* The config of one node of the tree.  A node with pipe = TRUE has a
\* _target (a dataset node); one with pipe = FALSE is a plain mapping.
NodeCfg(pipe, hasParams, pt, nt, cd, rc, root) ==
  [pipe |-> pipe, hasParams |-> hasParams, ptrans |-> pt, ntrans |-> nt,
   cache_dir |-> cd, recache |-> rc, root |-> root]

PlainCfg == NodeCfg(FALSE, FALSE, NoT, NoT, "absent", "absent", "absent")

\* _target of node n, as its dotted components.
Target(n) == <<"pkg", "Ds" \o ToString(n)>>

\* str(node._target).split('.')[-1]
TargetName(t) == t[Len(t)]

VARIABLES
  request,   \* the probe config: datasetPath and pathOverrides
  tree,      \* shape of the config tree: node count, parent and children
  cfg,       \* the mutable fields of every node of the config tree
  cfg0,      \* the tree as loaded, before any mutation
  mainpc,    \* position of main / _probe_dataset
  target,    \* the located dataset node (0 before it is located)
  stack,     \* call stack of _probe_node frames, innermost last
  output,    \* the report main prints (empty until it is assembled)
  built,     \* log of ConfigResolver instantiations of dataset nodes
  applied,   \* per node, the transforms invoked on its entry, in order
  pre,       \* per node, its config right before it was stripped
  ended,     \* nodes whose _probe_node call has returned or raised
  heap,      \* the runtime values _snapshot_value is given, by object id
  arg,       \* the arguments of the _snapshot_value call: value and depth
  desc,      \* what _snapshot_value returned (empty before the call)
  calls      \* call stack of _snapshot_value frames, innermost last

probeVars == <<request, tree, cfg, cfg0, mainpc, target, stack, output, built,
               applied, pre, ended>>
snapVars == <<heap, arg, desc, calls>>
vars == <<probeVars, snapVars>>

Nodes == 1..tree.n
Pipes == {n \in Nodes : cfg0[n].pipe}

\* Children of node n, among c..N, under the parent function p, in iteration
\* order of the mapping that holds them.
RECURSIVE KidsFrom(_, _, _, _)
KidsFrom(p, N, n, c) ==
  IF c > N THEN <<>>
  ELSE (IF p[c] = n THEN <<c>> ELSE <<>>) \o KidsFrom(p, N, n, c + 1)

Kids(n) == tree.kids[n]

Key(c) == "k" \o ToString(c)

\* n and every node nested anywhere below it.
RECURSIVE Below(_)
Below(n) ==
  {n} \cup UNION {Below(Kids(n)[i]) : i \in 1..Len(Kids(n))}

\* n and the dataset nodes reached from it through params children that are
\* themselves dataset nodes: the wrapped datasets, at every depth.
RECURSIVE Wrapped(_)
Wrapped(n) ==
  {n} \cup UNION {IF cfg0[Kids(n)[i]].pipe THEN Wrapped(Kids(n)[i]) ELSE {} :
                  i \in 1..Len(Kids(n))}

\* First wrapped dataset of n (lines 221-224): the first params child that is
\* a mapping with a _target.  0 when there is none.
RECURSIVE FirstPipe(_, _)
FirstPipe(ks, i) ==
  IF i > Len(ks) THEN 0
  ELSE IF cfg[ks[i]].pipe THEN ks[i] ELSE FirstPipe(ks, i + 1)

WrappedChild(n) == IF cfg[n].hasParams THEN FirstPipe(Kids(n), 1) ELSE 0

\* ------------------------------------------------------------- locate
\* A position in the document while a dotted path is walked.
AtDoc == [at |-> "doc", id |-> 0]
AtNode(n) == [at |-> "node", id |-> n]
AtParams(n) == [at |-> "params", id |-> n]
Missing == [at |-> "missing", id |-> 0]

HasKid(n, seg) == \E i \in 1..Len(Kids(n)) : Key(Kids(n)[i]) = seg
KidNamed(n, seg) == CHOOSE c \in Nodes : tree.parent[c] = n /\ Key(c) = seg

\* The mutation of Lookup that steps over a key it does not find.
LookupLenient(cur, seg) ==
  IF cur.at = "doc" THEN (IF seg = "ds" THEN AtNode(1) ELSE cur)
  ELSE IF cur.at = "node" /\ cfg[cur.id].pipe
    THEN (IF seg = "params" /\ cfg[cur.id].hasParams THEN AtParams(cur.id)
          ELSE cur)
  ELSE IF cur.at \in {"node", "params"}
    THEN (IF HasKid(cur.id, seg) THEN AtNode(KidNamed(cur.id, seg))
          ELSE cur)
  ELSE cur

\* node[part]: one key lookup.  The document holds the root dataset under
\* "ds"; a dataset node holds its params under "params"; params and plain
\* mappings hold their children under the children's keys.
Lookup(cur, seg) ==
  IF cur.at = "doc" THEN (IF seg = "ds" THEN AtNode(1) ELSE Missing)
  ELSE IF cur.at = "node" /\ cfg[cur.id].pipe
    THEN (IF seg = "params" /\ cfg[cur.id].hasParams THEN AtParams(cur.id)
          ELSE Missing)
  ELSE IF cur.at \in {"node", "params"}
    THEN (IF HasKid(cur.id, seg) THEN AtNode(KidNamed(cur.id, seg))
          ELSE Missing)
  ELSE Missing

\* for part in dataset_path.split('.'): node = node[part]
RECURSIVE Walk(_, _, _)
Walk(cur, path, i) ==
  IF i > Len(path) \/ cur.at = "missing" THEN cur
  ELSE Walk(Lookup(cur, path[i]), path, i + 1)

Locate(path) == Walk(AtDoc, path, 1)

\* The dotted path of dataset node n.
RECURSIVE PathOf(_)
PathOf(n) ==
  IF n = 1 THEN <<"ds">>
  ELSE IF cfg0[tree.parent[n]].pipe
    THEN PathOf(tree.parent[n]) \o <<"params", Key(n)>>
  ELSE PathOf(tree.parent[n]) \o <<Key(n)>>

\* ------------------------------------------------------------- overrides
NoOverrides == [x \in {} |-> ""]

\* The root override of one node (lines 186-189).
OverrideRoot(c, n, ov) ==
  IF c[n].root # "absent" /\ c[n].root \in DOMAIN ov
  THEN [c EXCEPT ![n].root = ov[c[n].root]]
  ELSE c

\* The mutation of DescendsInto that never recurses.
NeverDescends(c, k) == FALSE

\* Descent into the params children (lines 190-193).
DescendsInto(c, k) == c[k].pipe

\* _apply_overrides(node, overrides), as the config it leaves behind.
RECURSIVE ApplyOverrides(_, _, _)
RECURSIVE OverrideKids(_, _, _, _)
ApplyOverrides(c, n, ov) ==
  IF DOMAIN ov = {} THEN c
  ELSE IF ~c[n].hasParams THEN c
  ELSE OverrideKids(OverrideRoot(c, n, ov), Kids(n), 1, ov)

OverrideKids(c, ks, i, ov) ==
  IF i > Len(ks) THEN c
  ELSE OverrideKids(IF DescendsInto(c, ks[i])
                    THEN ApplyOverrides(c, ks[i], ov) ELSE c,
                    ks, i + 1, ov)

\* ------------------------------------------------------------- results
\* One snapshot of a result.  err is <<>> when the snapshot has no
\* errorMessage key and <<msg>> when it has one.  fields stands for the
\* field descriptors of the entry: the entry itself.
Snapshot(label, idx, entry) ==
  [stepLabel |-> label, stepIndex |-> idx, fields |-> entry, err |-> <<>>]

ErrorSnapshot(label, idx, msg) ==
  [stepLabel |-> label, stepIndex |-> idx, fields |-> <<>>, err |-> <<msg>>]

\* The dict _probe_node returns.  innerResult is <<>> for None.
Result(n, snaps, inner) ==
  [datasetName |-> TargetName(Target(n)), datasetTarget |-> Target(n),
   snapshots |-> snaps, innerResult |-> inner]

\* The result the except clause of lines 227-238 builds for a child whose
\* probe raised.
RaisedResult(child, msg) ==
  Result(child, <<ErrorSnapshot(TargetName(Target(child)), 0, msg)>>, <<>>)

\* s.get('errorMessage'): the message when the key is there, else None.
\* A Python value is truthy unless it is None or the empty string.
Truthy(err) == err # <<>> /\ err[1] # ""

\* any(s.get('errorMessage') for s in inner_result.get('snapshots', []))
HasErr(r) == \E j \in 1..Len(r.snapshots) : Truthy(r.snapshots[j].err)

\* type(transform).__name__ of the i-th transform.
StageLabel(i) == "T" \o ToString(i)

\* The report of main: output (lines 386-392) and its except (395-401).
Report(r) == [success |-> TRUE, result |-> <<r>>, errorMessage |-> <<>>]
Fatal(msg) == [success |-> FALSE, result |-> <<>>, errorMessage |-> <<msg>>]

\* ------------------------------------------------------------- frames
\* The locals of one _probe_node call.
Frame(n) ==
  [node |-> n, pc |-> "discover", inner_result |-> <<>>,
   transforms_raw |-> <<>>, transforms_source |-> <<>>,
   saved_transforms |-> NullT, saved_transforms_location |-> "none",
   saved_cache |-> [k \in {} |-> ""],
   entry |-> <<>>, snapshots |-> <<>>, transforms |-> 0, i |-> 0]

Top == stack[Len(stack)]
Running == mainpc = "probing" /\ stack # <<>>
SetTop(f) == [stack EXCEPT ![Len(stack)] = f]

\* The top call raises an exception with message msg.  A wrapped call is
\* caught by its caller (lines 227-238), which goes on to line 242; the
\* root call is caught by main (lines 393-401).
Raise(msg) ==
  /\ ended' = ended \cup {Top.node}
  /\ IF Len(stack) = 1
     THEN /\ stack' = <<>>
          /\ output' = <<Fatal(msg)>>
          /\ mainpc' = "done"
     ELSE /\ stack' = [SubSeq(stack, 1, Len(stack) - 1)
                         EXCEPT ![Len(stack) - 1].inner_result =
                                  <<RaisedResult(Top.node, msg)>>,
                                ![Len(stack) - 1].pc = "check"]
          /\ UNCHANGED <<output, mainpc>>

\* The top call returns r: to its caller (line 226), or through
\* _probe_dataset to main (lines 379-392).
Return(r) ==
  /\ ended' = ended \cup {Top.node}
  /\ IF Len(stack) = 1
     THEN /\ stack' = <<>>
          /\ output' = <<Report(r)>>
          /\ mainpc' = "done"
     ELSE /\ stack' = [SubSeq(stack, 1, Len(stack) - 1)
                         EXCEPT ![Len(stack) - 1].inner_result = <<r>>,
                                ![Len(stack) - 1].pc = "check"]
          /\ UNCHANGED <<output, mainpc>>

\* ------------------------------------------------------ strip and restore
\* saved_transforms, saved_transforms_location and saved_cache as lines
\* 273-292 leave them for a node whose config is c.
ParamsTransforms(c) ==
  IF c.hasParams /\ c.ptrans.k # "absent" THEN c.ptrans ELSE NullT

SavedTransforms(c) ==
  IF ParamsTransforms(c) = NullT /\ c.ntrans.k # "absent"
  THEN c.ntrans ELSE ParamsTransforms(c)

SavedLocation(c) ==
  IF ParamsTransforms(c) = NullT /\ c.ntrans.k # "absent" THEN "node"
  ELSE IF c.hasParams /\ c.ptrans.k # "absent" THEN "params"
  ELSE "none"

\* The mutation of SavedCache that does not save a null value.
SavedCacheSkipsNull(c) ==
  [k \in {x \in {"cache_dir", "recache"} :
            c.hasParams /\ c[x] \notin {"absent", "null"}}
     |-> c[k]]

SavedCache(c) ==
  [k \in {x \in {"cache_dir", "recache"} : c.hasParams /\ c[x] # "absent"}
     |-> c[k]]

\* The node config after lines 272-292.
StripNode(c) ==
  LET c1 == IF c.hasParams /\ c.ptrans.k # "absent"
            THEN [c EXCEPT !.ptrans = NullT] ELSE c
      c2 == IF c.hasParams /\ c.cache_dir # "absent"
            THEN [c1 EXCEPT !.cache_dir = "null"] ELSE c1
      c3 == IF c.hasParams /\ c.recache # "absent"
            THEN [c2 EXCEPT !.recache = "false"] ELSE c2
  IN IF ParamsTransforms(c) = NullT /\ c.ntrans.k # "absent"
     THEN [c3 EXCEPT !.ntrans = NullT] ELSE c3

\* The node config after lines 301-309, from the locals of frame f.
RestoreNode(c, f) ==
  LET c1 == IF f.saved_transforms # NullT
            THEN (IF f.saved_transforms_location = "params"
                  THEN [c EXCEPT !.ptrans = f.saved_transforms]
                  ELSE [c EXCEPT !.ntrans = f.saved_transforms])
            ELSE c
      c2 == IF c.hasParams /\ "cache_dir" \in DOMAIN f.saved_cache
            THEN [c1 EXCEPT !.cache_dir = f.saved_cache["cache_dir"]] ELSE c1
  IN IF c.hasParams /\ "recache" \in DOMAIN f.saved_cache
     THEN [c2 EXCEPT !.recache = f.saved_cache["recache"]] ELSE c2

\* What one ConfigResolver call on dataset node n builds: n and the datasets
\* it wraps (the resolver builds a wrapped dataset as part of its wrapper,
\* see the comment of lines 294-295), each from its config as it is now.
Constructed(n) ==
  {[node |-> m, cache_dir |-> cfg[m].cache_dir, recache |-> cfg[m].recache] :
     m \in Wrapped(n)}

\* ------------------------------------------------------------- inputs
TreeShapes(N) ==
  {[n |-> N, parent |-> p, kids |-> [m \in 1..N |-> KidsFrom(p, N, m, 2)]] :
     p \in {q \in [1..N -> 0..N] :
              q[1] = 0 /\ \A c \in 2..N : q[c] \in 1..(c - 1)}}

\* The root is a dataset; a node that has children has params (a plain
\* mapping holds them itself); a plain mapping is there to hold a dataset.
WellFormed(c) ==
  /\ c[1].pipe
  /\ \A n \in Nodes : Kids(n) # <<>> /\ c[n].pipe => c[n].hasParams
  /\ \A n \in Nodes : ~c[n].pipe => Kids(n) # <<>>

\* Dataset configs of the probe specification.
DatasetCfgs ==
  {NodeCfg(TRUE, TRUE, NoT, NoT, "absent", "absent", "/old"),
   NodeCfg(TRUE, TRUE, TransVal("list", MaxStages), NoT, "/cache", "true",
           "absent"),
   NodeCfg(TRUE, TRUE, NoT, TransVal("ref", 1), "absent", "absent",
           "/other")}

Overrides ==
  {NoOverrides, "/old" :> "/new"}

Corrupt(path, i) == [path EXCEPT ![i] = "zz"]

\* Requests: the path of a dataset node of the tree, or such a path with one
\* segment replaced by a key the tree does not have.
Paths ==
  {PathOf(t) : t \in Pipes}
  \cup UNION {{Corrupt(PathOf(t), i) : i \in 1..Len(PathOf(t))} : t \in Pipes}

\* main has loaded the config and has not called _probe_dataset yet.
NotStarted ==
  /\ mainpc = "start"
  /\ target = 0
  /\ stack = <<>>
  /\ output = <<>>
  /\ built = {}
  /\ applied = [n \in Nodes |-> <<>>]
  /\ pre = [n \in Nodes |-> <<>>]
  /\ ended = {}
  /\ heap = <<>>
  /\ arg = [id |-> 0, depth |-> 0]
  /\ desc = <<>>
  /\ calls = <<>>

\* The empty override mapping makes _apply_overrides return at once (line
\* 181) and leaves the probe as it is with overrides; it is requested on
\* every tree but the largest ones.
InitFrom(maxN, cfgs, ovs) ==
  /\ tree \in UNION {TreeShapes(N) : N \in 1..maxN}
  /\ cfg0 \in {c \in [Nodes -> cfgs \cup {PlainCfg}] : WellFormed(c)}
  /\ cfg = cfg0
  /\ request \in [path : Paths,
                  overrides : IF tree.n < maxN THEN ovs
                              ELSE ovs \ {NoOverrides}]
  /\ NotStarted

Init == InitFrom(MaxNodes, DatasetCfgs, Overrides)

\* ------------------------------------------------------------- main
\* _probe_dataset, lines 200-206: walk the path and apply the overrides.  A
\* missing segment raises, which main reports (lines 393-401).
LocateAndOverride ==
  /\ mainpc = "start"
  /\ LET found == Locate(request.path) IN
       IF found.at = "node"
       THEN /\ target' = found.id
            /\ cfg' = ApplyOverrides(cfg, found.id, request.overrides)
            /\ mainpc' = "located"
            /\ UNCHANGED output
       ELSE /\ output' = <<Fatal("missing key")>>
            /\ mainpc' = "done"
            /\ UNCHANGED <<target, cfg>>
  /\ UNCHANGED <<request, tree, cfg0, stack, built, applied, pre, ended>>
  /\ UNCHANGED snapVars

\* _probe_dataset, lines 208-211: the root call of _probe_node.
StartProbe ==
  /\ mainpc = "located"
  /\ mainpc' = "probing"
  /\ stack' = <<Frame(target)>>
  /\ UNCHANGED <<request, tree, cfg, cfg0, target, output, built, applied,
                 pre, ended>>
  /\ UNCHANGED snapVars

\* ------------------------------------------------------------- _probe_node
\* Lines 218-239: find the first wrapped dataset and probe it first.
Discover ==
  /\ Running /\ Top.pc = "discover"
  /\ LET child == WrappedChild(Top.node) IN
       IF child # 0
       THEN stack' = Append(SetTop([Top EXCEPT !.pc = "inner"]), Frame(child))
       ELSE stack' = SetTop([Top EXCEPT !.pc = "extract"])
  /\ UNCHANGED <<request, tree, cfg, cfg0, mainpc, target, output, built,
                 applied, pre, ended>>
  /\ UNCHANGED snapVars

\* Lines 241-251: an inner result with errors ends the call with no snapshots.
CheckInner ==
  /\ Running /\ Top.pc = "check"
  /\ IF HasErr(Top.inner_result[1])
     THEN Return(Result(Top.node, <<>>, Top.inner_result))
     ELSE /\ stack' = SetTop([Top EXCEPT !.pc = "extract"])
          /\ UNCHANGED <<mainpc, output, ended>>
  /\ UNCHANGED <<request, tree, cfg, cfg0, target, built, applied, pre>>
  /\ UNCHANGED snapVars

\* The transforms value lines 256-269 read: params first, then the node.
TransformsVal(c) ==
  IF c.hasParams /\ c.ptrans.k # "absent" THEN c.ptrans ELSE c.ntrans

\* Lines 253-269: collect the transforms config.  to_container raises on null.
Extract ==
  /\ Running /\ Top.pc = "extract"
  /\ LET v == TransformsVal(cfg[Top.node]) IN
       IF v.k = "null"
       THEN Raise(NotConfigMsg)
       ELSE /\ stack' = SetTop([Top EXCEPT
                 !.pc = "strip",
                 !.transforms_source = IF v.k = "ref" THEN <<v.n>> ELSE <<>>,
                 !.transforms_raw = IF v.k = "list" THEN <<v.n>> ELSE <<>>])
            /\ UNCHANGED <<mainpc, output, ended>>
  /\ UNCHANGED <<request, tree, cfg, cfg0, target, built, applied, pre>>
  /\ UNCHANGED snapVars

\* Lines 271-292: strip the transforms and neutralize the cache.
Strip ==
  /\ Running /\ Top.pc = "strip"
  /\ pre' = [pre EXCEPT ![Top.node] = <<cfg[Top.node]>>]
  /\ cfg' = [cfg EXCEPT ![Top.node] = StripNode(cfg[Top.node])]
  /\ stack' = SetTop([Top EXCEPT
       !.pc = "instantiate",
       !.saved_transforms = SavedTransforms(cfg[Top.node]),
       !.saved_transforms_location = SavedLocation(cfg[Top.node]),
       !.saved_cache = SavedCache(cfg[Top.node])])
  /\ UNCHANGED <<request, tree, cfg0, mainpc, target, output, built, applied,
                 ended>>
  /\ UNCHANGED snapVars

\* The log entry of the ConfigResolver call of frame f: the node, the inner
\* result the call was made with, what it constructs, and whether it
\* returned (ok) or raised.
Built(f, ok) ==
  [node |-> f.node, inner |-> f.inner_result, nodes |-> Constructed(f.node),
   ok |-> ok]

\* Lines 294-298: the ConfigResolver call.  It returns the dataset or raises.
Instantiate ==
  /\ Running /\ Top.pc = "instantiate"
  /\ \/ /\ built' = built \cup {Built(Top, TRUE)}
        /\ stack' = SetTop([Top EXCEPT !.pc = "restore"])
        /\ UNCHANGED <<mainpc, output, ended>>
     \/ /\ built' = built \cup {Built(Top, FALSE)}
        /\ \E msg \in Msgs : Raise(msg)
  /\ UNCHANGED <<request, tree, cfg, cfg0, target, applied, pre>>
  /\ UNCHANGED snapVars

\* Lines 300-309: restore the original config values.
Restore ==
  /\ Running /\ Top.pc = "restore"
  /\ cfg' = [cfg EXCEPT ![Top.node] = RestoreNode(cfg[Top.node], Top)]
  /\ stack' = SetTop([Top EXCEPT !.pc = "fetch"])
  /\ UNCHANGED <<request, tree, cfg0, mainpc, target, output, built, applied,
                 pre, ended>>
  /\ UNCHANGED snapVars

\* Where the call goes after line 313 (lines 316, 335).
AfterFetch(f) ==
  IF f.transforms_source # <<>> THEN "resolve"
  ELSE IF f.transforms_raw # <<>> /\ f.transforms_raw[1] > 0 THEN "apply"
  ELSE "return"

\* Lines 311-313: dataset[0] and the initial snapshot.
Fetch ==
  /\ Running /\ Top.pc = "fetch"
  /\ \/ /\ stack' = SetTop([Top EXCEPT
               !.pc = AfterFetch(Top),
               !.entry = <<0>>,
               !.snapshots = <<Snapshot(TargetName(Target(Top.node)), 0,
                                        <<0>>)>>,
               !.transforms = IF Top.transforms_raw # <<>>
                              THEN Top.transforms_raw[1] ELSE 0,
               !.i = 1])
        /\ UNCHANGED <<mainpc, output, ended>>
     \/ \E msg \in Msgs : Raise(msg)
  /\ UNCHANGED <<request, tree, cfg, cfg0, target, built, applied, pre>>
  /\ UNCHANGED snapVars

\* Lines 316-319: resolve the %{...} reference to the list of transforms.
ResolveRef ==
  /\ Running /\ Top.pc = "resolve"
  /\ \/ /\ stack' = SetTop([Top EXCEPT
               !.pc = IF Top.transforms_source[1] > 0 THEN "apply"
                      ELSE "return",
               !.transforms = Top.transforms_source[1]])
        /\ UNCHANGED <<mainpc, output, ended>>
     \/ \E msg \in Msgs : Raise(msg)
  /\ UNCHANGED <<request, tree, cfg, cfg0, target, built, applied, pre>>
  /\ UNCHANGED snapVars

\* The mutation of StageDone that numbers the steps from zero.
StageDoneZeroBased(f) ==
  LET e == Append(f.entry, f.i) IN
    [f EXCEPT !.entry = e,
              !.snapshots = Append(f.snapshots,
                                   Snapshot(StageLabel(f.i), f.i - 1, e)),
              !.i = f.i + 1,
              !.pc = IF f.i < f.transforms THEN "apply" ELSE "return"]

\* The frame after transform i returned (lines 323-324, 343-344).
StageDone(f) ==
  LET e == Append(f.entry, f.i) IN
    [f EXCEPT !.entry = e,
              !.snapshots = Append(f.snapshots,
                                   Snapshot(StageLabel(f.i), f.i, e)),
              !.i = f.i + 1,
              !.pc = IF f.i < f.transforms THEN "apply" ELSE "return"]

\* The mutation of StageFailed that goes on with the next transform.
StageFailedNoBreak(f, msg) ==
  [f EXCEPT !.snapshots = Append(f.snapshots,
                                 ErrorSnapshot(StageLabel(f.i), f.i, msg)),
            !.i = f.i + 1,
            !.pc = IF f.i < f.transforms THEN "apply" ELSE "return"]

\* The frame after transform i raised (lines 325-334, 345-355): the break.
StageFailed(f, msg) ==
  [f EXCEPT !.snapshots = Append(f.snapshots,
                                 ErrorSnapshot(StageLabel(f.i), f.i, msg)),
            !.pc = "return"]

\* One iteration of the loop of lines 320-334 or 338-355.  In the inline
\* list case the transform is built inside the try, so building it can fail
\* before it is ever called.
ApplyStage ==
  /\ Running /\ Top.pc = "apply"
  /\ \/ /\ stack' = SetTop(StageDone(Top))
        /\ applied' = [applied EXCEPT ![Top.node] = Append(@, Top.i)]
     \/ \E msg \in Msgs :
          /\ stack' = SetTop(StageFailed(Top, msg))
          /\ applied' = [applied EXCEPT ![Top.node] = Append(@, Top.i)]
     \/ \E msg \in Msgs :
          /\ Top.transforms_raw # <<>>
          /\ stack' = SetTop(StageFailed(Top, msg))
          /\ applied' = applied
  /\ UNCHANGED <<request, tree, cfg, cfg0, mainpc, target, output, built,
                 pre, ended>>
  /\ UNCHANGED snapVars

\* Lines 357-362.
ReturnResult ==
  /\ Running /\ Top.pc = "return"
  /\ Return(Result(Top.node, Top.snapshots, Top.inner_result))
  /\ UNCHANGED <<request, tree, cfg, cfg0, target, built, applied, pre>>
  /\ UNCHANGED snapVars

Next ==
  \/ LocateAndOverride
  \/ StartProbe
  \/ Discover
  \/ CheckInner
  \/ Extract
  \/ Strip
  \/ Instantiate
  \/ Restore
  \/ Fetch
  \/ ResolveRef
  \/ ApplyStage
  \/ ReturnResult

Spec == Init /\ [][Next]_vars

\* ------------------------------------------------------------- observers
\* A result has an error entry: a snapshot that carries an errorMessage.
HasErrorEntry(r) == \E j \in 1..Len(r.snapshots) : r.snapshots[j].err # <<>>

\* No error entry in r nor in any result nested in it.
RECURSIVE Clean(_)
Clean(r) ==
  /\ ~HasErrorEntry(r)
  /\ r.innerResult = <<>> \/ Clean(r.innerResult[1])

\* <<n, r>> for r and every result nested in it, n the node r is the result
\* of, outermost first.
RECURSIVE ResultsIn(_, _)
ResultsIn(n, r) ==
  <<<<n, r>>>> \o
    (IF r.innerResult = <<>> THEN <<>>
     ELSE ResultsIn(WrappedChild(n), r.innerResult[1]))

\* The results held by the frames 1..j of the stack.
RECURSIVE ResultsOfFrames(_)
ResultsOfFrames(j) ==
  IF j = 0 THEN <<>>
  ELSE ResultsOfFrames(j - 1) \o
       (IF stack[j].inner_result = <<>> THEN <<>>
        ELSE ResultsIn(WrappedChild(stack[j].node), stack[j].inner_result[1]))

\* Every result the run has produced and still holds, with its node.
AllResults ==
  (IF output # <<>> /\ output[1].result # <<>>
   THEN ResultsIn(target, output[1].result[1]) ELSE <<>>)
  \o ResultsOfFrames(Len(stack))

\* The stages of node n that were invoked, in order of invocation.
StagesOf(n) == applied[n]

\* The entry after the stages 1..i were applied to the raw entry.
EntryAfter(i) == [j \in 1..(i + 1) |-> j - 1]

\* The request names a dataset node of the tree.
PathExists == \E t \in Pipes : request.path = PathOf(t)

\* The number of transforms configured for node n.
NumStages(n) == TransformsVal(cfg0[n]).n

\* ------------------------------------------------------------- claims
\* C1: if the inner node's result contains an error entry, the outer node's
\* result has no snapshots and carries the inner result, and the resolver is
\* never invoked to instantiate the outer node.
C1_SkippedOnInnerError ==
  /\ \A b \in built : b.inner = <<>> \/ ~HasErrorEntry(b.inner[1])
  /\ LET all == AllResults IN \A x \in 1..Len(all) : LET p == all[x] IN
       p[2].innerResult # <<>> /\ HasErrorEntry(p[2].innerResult[1])
         => p[2].snapshots = <<>>

\* C2: a node is instantiated, and its stages applied, only if every node
\* nested below it at every depth completed its probe without any error
\* entry; a failure below leaves every enclosing node un-instantiated with
\* no snapshots.
C2_NestedFailureIsolation ==
  /\ \A b \in built : b.inner = <<>> \/ Clean(b.inner[1])
  /\ LET all == AllResults IN \A x \in 1..Len(all) : LET p == all[x] IN
       p[2].innerResult # <<>> /\ ~Clean(p[2].innerResult[1])
         => p[2].snapshots = <<>>

\* C3: once the probe of a node has ended, by return or by exception, its
\* transforms fields, cache_dir and recache hold their pre-strip values.
C3_RestoredOnEveryExit ==
  \A n \in ended :
    pre[n] # <<>> =>
      /\ cfg[n].ptrans = pre[n][1].ptrans
      /\ cfg[n].ntrans = pre[n][1].ntrans
      /\ cfg[n].cache_dir = pre[n][1].cache_dir
      /\ cfg[n].recache = pre[n][1].recache

\* C4: stages are invoked left to right, and when stage k is the first to
\* fail the snapshots are the initial one, one per stage 1..k-1, and one
\* error entry for stage k; no stage after k is invoked.
C4_StopAtFirstFailure ==
  /\ \A n \in Nodes : \A i \in 1..Len(StagesOf(n)) : StagesOf(n)[i] = i
  /\ LET all == AllResults IN
     \A x \in 1..Len(all) : \A j \in 1..Len(all[x][2].snapshots) :
       LET p == all[x] IN
       LET s == p[2].snapshots
           k == s[j].stepIndex
       IN s[j].err # <<>> /\ k >= 1 =>
            /\ Len(s) = k + 1
            /\ j = k + 1
            /\ \A i \in 0..(k - 1) :
                 /\ s[i + 1].err = <<>>
                 /\ s[i + 1].stepIndex = i
                 /\ s[i + 1].fields = EntryAfter(i)
            /\ \A i \in 1..Len(StagesOf(p[1])) :
                 StagesOf(p[1])[i] <= k

C4_Witness ==
  LET all == AllResults IN \E x \in 1..Len(all) : LET p == all[x] IN
    /\ NumStages(p[1]) >= 3
    /\ Len(p[2].snapshots) = 3
    /\ p[2].snapshots[3].err # <<>>
    /\ StagesOf(p[1]) = <<1, 2>>

\* C5: an instantiation or stage failure at any node of an existing target
\* never makes the report a failure: success is true and a result is there.
C5_FailuresStayInside ==
  output # <<>> /\ PathExists =>
    output[1].success /\ output[1].result # <<>>

\* C6: every dataset node a resolver call constructs has its cache_dir
\* disabled and its recache flag off at that moment.
C6_NoCacheEffects ==
  \A b \in built : \A c \in b.nodes :
    /\ c.cache_dir \in {"absent", "null"}
    /\ c.recache \in {"absent", "null", "false"}

\* C7: a target path with an absent segment ends in a fatal report
\* (success false, no result, a message) and nothing is instantiated.
C7_PathNotFoundIsFatal ==
  ~PathExists =>
    /\ built = {} /\ stack = <<>>
    /\ \A n \in Nodes : applied[n] = <<>>
    /\ output # <<>> =>
         /\ ~output[1].success
         /\ output[1].result = <<>>
         /\ output[1].errorMessage # <<>>

C7_Witness == output # <<>> /\ ~PathExists /\ Len(request.path) > 1

\* C8: a node without wrapped dataset whose instantiation, fetch and n
\* stages all succeed has n+1 snapshots, the i-th with stepIndex i-1 and
\* the entry after stages 1..i-1, its own target and no inner result.
C8_FullTrace ==
  LET all == AllResults IN \A x \in 1..Len(all) : LET p == all[x] IN
    WrappedChild(p[1]) = 0 /\ ~HasErrorEntry(p[2]) =>
      /\ Len(p[2].snapshots) = NumStages(p[1]) + 1
      /\ \A i \in 1..Len(p[2].snapshots) :
           /\ p[2].snapshots[i].stepIndex = i - 1
           /\ p[2].snapshots[i].fields = EntryAfter(i - 1)
      /\ p[2].datasetTarget = Target(p[1])
      /\ p[2].innerResult = <<>>

C8_Witness ==
  LET all == AllResults IN \E x \in 1..Len(all) : LET p == all[x] IN
    /\ WrappedChild(p[1]) = 0 /\ ~HasErrorEntry(p[2])
    /\ NumStages(p[1]) >= 3
    /\ Len(p[2].snapshots) = NumStages(p[1]) + 1

\* The config a node is expected to have after the overrides, when the
\* nodes of the set S are the ones visited.
Overridden(m, S) ==
  IF m \in S /\ cfg0[m].root # "absent"
     /\ cfg0[m].root \in DOMAIN request.overrides
  THEN [cfg0[m] EXCEPT !.root = request.overrides[cfg0[m].root]]
  ELSE cfg0[m]

\* C9 as stated: after the overrides every dataset node nested anywhere
\* below the target has its root replaced when it matches a key, and
\* nothing else changed.
C9_EveryNestedNode ==
  mainpc = "located" =>
    \A m \in Nodes : cfg[m] = Overridden(m, {x \in Below(target) : cfg0[x].pipe})

\* C9 amended: the nodes whose root is replaced are the target and the
\* dataset nodes reached from it through params children that are dataset
\* nodes; a dataset inside a plain mapping is not visited.  Nothing else
\* changes, and with no overrides nothing changes at all.
C9_WrappedChainOnly ==
  mainpc = "located" =>
    /\ \A m \in Nodes : cfg[m] = Overridden(m, Wrapped(target))
    /\ request.overrides = NoOverrides => cfg = cfg0

C9_Witness ==
  /\ mainpc = "located"
  /\ \E m \in Wrapped(target) \ {target} : cfg[m].root # cfg0[m].root
  /\ \E m \in Wrapped(target) : cfg0[m].root = "/other"

\* ------------------------------------------------------- _snapshot_value
\* Breadth cap of lines 105 and 145, default depth of line 43, preview
\* length of lines 72 and 91.
MaxChildren == 200
DefaultDepth == 2
PreviewLen == 8

\* Bounds of the values drawn: explicit elements per container, and how
\* far past the breadth cap a padded container goes.
MaxItems == 2
MaxOver == 1

\* A runtime value.  tag is its Python type; data the flattened elements of
\* a tensor or ndarray; a container holds the objects items (by id) followed
\* by padN references to the object padId.
Value(tag, data, items, padId, padN) ==
  [tag |-> tag, data |-> data, items |-> items, padId |-> padId, padN |-> padN]

Leaf(tag, data) == Value(tag, data, <<>>, 0, 0)

IsArray(v) == v.tag \in {"tensor", "ndarray"}
IsSequence(v) == v.tag \in {"list", "tuple"}

\* The elements of a container, as object ids in iteration order: its
\* length and its i-th element.
Size(v) == Len(v.items) + v.padN
Elem(v, i) == IF i <= Len(v.items) THEN v.items[i] ELSE v.padId

\* element_size() * nelement() of a float32 tensor, nbytes of a float64 array.
NBytes(v) ==
  IF v.tag = "tensor" THEN 4 * Len(v.data)
  ELSE IF v.tag = "ndarray" THEN 8 * Len(v.data)
  ELSE 0

\* Total bytes of the arrays among the elements lo..hi of v, by halving
\* (the containers are long).
RECURSIVE BytesIn(_, _, _)
BytesIn(v, lo, hi) ==
  IF lo > hi THEN 0
  ELSE IF lo = hi THEN NBytes(heap[Elem(v, lo)])
  ELSE BytesIn(v, lo, (lo + hi) \div 2)
       + BytesIn(v, (lo + hi) \div 2 + 1, hi)

SumBytes(v) == BytesIn(v, 1, Size(v))

Range(d) == {d[i] : i \in 1..Len(d)}
SeqMin(d) == CHOOSE x \in Range(d) : \A y \in Range(d) : x <= y
SeqMax(d) == CHOOSE x \in Range(d) : \A y \in Range(d) : x >= y

RECURSIVE SumIn(_, _, _)
SumIn(d, lo, hi) ==
  IF lo > hi THEN 0
  ELSE IF lo = hi THEN d[lo]
  ELSE SumIn(d, lo, (lo + hi) \div 2) + SumIn(d, (lo + hi) \div 2 + 1, hi)

SeqSum(d) == SumIn(d, 1, Len(d))
SeqSumSq(d) == SumIn([i \in 1..Len(d) |-> d[i] * d[i]], 1, Len(d))

\* min, max, mean and std of the elements d.  The mean is kept as sum over
\* count and the std as the sum of squares it is computed from.
Stats(d) ==
  [minValue |-> SeqMin(d), maxValue |-> SeqMax(d),
   meanValue |-> <<SeqSum(d), Len(d)>>,
   stdValue |-> <<SeqSumSq(d), SeqSum(d), Len(d)>>]

\* The concatenation of the non-empty arrays of type tag among the elements
\* lo..hi of v (lines 125-126, 136-137), by halving.
RECURSIVE ConcatIn(_, _, _, _)
ConcatIn(v, tag, lo, hi) ==
  IF lo > hi THEN <<>>
  ELSE IF lo = hi
    THEN (IF heap[Elem(v, lo)].tag = tag THEN heap[Elem(v, lo)].data ELSE <<>>)
  ELSE ConcatIn(v, tag, lo, (lo + hi) \div 2)
       \o ConcatIn(v, tag, (lo + hi) \div 2 + 1, hi)

Concat(v, tag) == ConcatIn(v, tag, 1, Size(v))

\* Aggregate stats of a sequence (lines 119-143): none unless the first
\* element is an array; torch.cat and np.concatenate raise on an empty list,
\* which the except clause swallows.
SequenceStats(v) ==
  IF Size(v) = 0 \/ ~IsArray(heap[Elem(v, 1)]) THEN <<>>
  ELSE IF Concat(v, heap[Elem(v, 1)].tag) = <<>> THEN <<>>
  ELSE <<Stats(Concat(v, heap[Elem(v, 1)].tag))>>

SequenceShape(v) ==
  IF Size(v) = 0 \/ ~IsArray(heap[Elem(v, 1)]) THEN <<>>
  ELSE <<<<Size(v), Len(heap[Elem(v, 1)].data)>>>>

Min(a, b) == IF a < b THEN a ELSE b

\* The info dict of lines 48-56.  An optional field is <<>> for None and
\* <<x>> for the value x.
Info(key, v) ==
  [key |-> key, pythonType |-> v.tag, shape |-> <<>>, dtype |-> <<>>,
   stats |-> <<>>, preview |-> <<>>, sizeBytes |-> <<>>, children |-> <<>>]

\* The "... N more" child of lines 148-153.
Sentinel(n) ==
  [key |-> "... " \o ToString(n) \o " more", pythonType |-> "",
   shape |-> <<>>, dtype |-> <<>>, stats |-> <<>>, preview |-> <<>>,
   sizeBytes |-> <<>>, children |-> <<>>]

DictKey(i) == "f" \o ToString(i)
IndexKey(i) == "[" \o ToString(i - 1) \o "]"

RECURSIVE SnapshotValue(_, _, _)

\* children of a dict (lines 105-106): None past the breadth cap.
DictChildren(v, depth) ==
  IF depth > 0 /\ Size(v) <= MaxChildren
  THEN <<[i \in 1..Size(v) |->
            SnapshotValue(Elem(v, i), DictKey(i), depth - 1)]>>
  ELSE <<>>

\* The mutation of SequenceChildren that forgets the sentinel.
SequenceChildrenNoSentinel(v, depth) ==
  IF depth > 0
  THEN <<[i \in 1..Min(Size(v), MaxChildren) |->
            SnapshotValue(Elem(v, i), IndexKey(i), depth - 1)]>>
  ELSE <<>>

\* children of a list or tuple (lines 144-154).
SequenceChildren(v, depth) ==
  IF depth > 0
  THEN LET limit == Min(Size(v), MaxChildren) IN
         <<[i \in 1..limit |->
              SnapshotValue(Elem(v, i), IndexKey(i), depth - 1)]
           \o (IF Size(v) > limit
               THEN <<Sentinel(Size(v) - limit)>> ELSE <<>>)>>
  ELSE <<>>

\* _snapshot_value(v, key, depth), v the object with the given id.
SnapshotValue(id, key, depth) ==
  LET v == heap[id] IN
    IF IsArray(v)
    THEN [Info(key, v) EXCEPT
            !.shape = <<<<Len(v.data)>>>>,
            !.dtype = <<IF v.tag = "tensor" THEN "float32" ELSE "float64">>,
            !.sizeBytes = <<NBytes(v)>>,
            !.stats = IF Len(v.data) > 0 THEN <<Stats(v.data)>> ELSE <<>>,
            !.preview = <<SubSeq(v.data, 1, Min(Len(v.data), PreviewLen))>>]
    ELSE IF v.tag = "dict"
    THEN [Info(key, v) EXCEPT
            !.preview = <<<<Size(v)>>>>,
            !.sizeBytes = IF SumBytes(v) > 0
                          THEN <<SumBytes(v)>> ELSE <<>>,
            !.children = DictChildren(v, depth)]
    ELSE IF IsSequence(v)
    THEN [Info(key, v) EXCEPT
            !.preview = <<<<Size(v)>>>>,
            !.sizeBytes = IF SumBytes(v) > 0
                          THEN <<SumBytes(v)>> ELSE <<>>,
            !.shape = SequenceShape(v),
            !.stats = SequenceStats(v),
            !.children = SequenceChildren(v, depth)]
    ELSE [Info(key, v) EXCEPT !.preview = <<v.data>>]

\* ------------------------------------------------ inputs of the snapshotter
\* Three objects: a top value, a middle value and a leaf.  Containers refer
\* to objects by id, so a container can hold itself or its holder.
Objects == {1, 2, 3}

Leaves ==
  {Leaf("tensor", <<>>), Leaf("tensor", <<1, 5>>), Leaf("ndarray", <<>>),
   Leaf("ndarray", <<2>>), Leaf("scalar", <<7>>), Leaf("opaque", <<0>>)}

ItemSeqs(maxLen) == UNION {[1..k -> Objects] : k \in 0..maxLen}

Containers(tags, maxLen) ==
  {Value(t, <<>>, it, 0, 0) : t \in tags, it \in ItemSeqs(maxLen)}

\* Containers around the breadth cap: n references to one object, which is
\* not itself such a container.
Padded(tags, sizes) ==
  {Value(t[1], <<>>, <<>>, t[2], t[3]) : t \in tags \X Objects \X sizes}

Heaps ==
  {h \in [Objects -> Leaves \cup Containers({"dict", "list", "tuple"}, MaxItems)
                     \cup Padded({"dict", "list", "tuple"},
                                 (MaxChildren - 1)..(MaxChildren + MaxOver))] :
     /\ h[3] \in Leaves
     /\ h[2] \in Leaves \cup Containers({"dict", "list"}, 1)
                 \cup Padded({"dict", "list"}, {MaxChildren + 1})
     /\ \A o \in Objects : h[o].padN > 0 => h[h[o].padId].padN = 0}

\* No probe is running: _snapshot_value is called on its own.
ProbeIdle ==
  /\ tree = [n |-> 1, parent |-> <<0>>, kids |-> <<<<>>>>]
  /\ cfg0 = <<PlainCfg>>
  /\ cfg = cfg0
  /\ request = [path |-> <<"ds">>, overrides |-> NoOverrides]
  /\ mainpc = "idle"
  /\ target = 0
  /\ stack = <<>>
  /\ output = <<>>
  /\ built = {}
  /\ applied = <<<<>>>>
  /\ pre = <<<<>>>>
  /\ ended = {}

SnapInit ==
  /\ heap \in Heaps
  /\ arg \in [id : {1}, depth : 0..DefaultDepth]
  /\ desc = <<>>
  /\ calls = <<>>
  /\ ProbeIdle

\* One call of _snapshot_value on the top value (as _snapshot_entry makes
\* for each field, line 167).
CallSnapshotValue ==
  /\ desc = <<>> /\ arg.id # 0
  /\ desc' = <<SnapshotValue(arg.id, "x", arg.depth)>>
  /\ UNCHANGED <<heap, arg, calls, probeVars>>

SnapNext == CallSnapshotValue

SnapSpec == SnapInit /\ [][SnapNext]_vars

\* Every descriptor of the tree d, with the object it describes and the
\* depth it was taken at.
RECURSIVE Described(_, _, _)
Described(d, id, depth) ==
  {[desc |-> d, id |-> id, depth |-> depth]} \cup
    (IF d.children = <<>> THEN {}
     ELSE UNION {Described(d.children[1][i], Elem(heap[id], i), depth - 1) :
                 i \in 1..Min(Len(d.children[1]),
                              Min(Size(heap[id]), MaxChildren))})

IsContainer(v) == v.tag \in {"dict", "list", "tuple"}

\* d has MaxChildren children followed by the sentinel for the n - MaxChildren
\* elements left out.
Truncated(d, n) ==
  /\ d.children # <<>>
  /\ Len(d.children[1]) = MaxChildren + 1
  /\ \A i \in 1..MaxChildren : d.children[1][i].pythonType # ""
  /\ d.children[1][MaxChildren + 1].pythonType = ""
  /\ d.children[1][MaxChildren + 1].key =
       "... " \o ToString(n - MaxChildren) \o " more"

\* C10 as stated: every mapping or sequence with more than 200 elements
\* snapshotted at depth > 0 gets 200 children and one "more" sentinel.
C10_EveryContainerTruncated ==
  desc # <<>> =>
    \A x \in Described(desc[1], arg.id, arg.depth) :
      IsContainer(heap[x.id]) /\ Size(heap[x.id]) > MaxChildren
        /\ x.depth > 0
      => Truncated(x.desc, Size(heap[x.id]))

\* C10 amended: a list or tuple with more than 200 elements snapshotted at
\* depth > 0 gets 200 children and one "more" sentinel counting the rest; a
\* mapping with more than 200 elements gets no children at all.
C10_SequencesTruncated ==
  desc # <<>> =>
    \A x \in Described(desc[1], arg.id, arg.depth) :
      Size(heap[x.id]) > MaxChildren /\ x.depth > 0 =>
        /\ IsSequence(heap[x.id]) => Truncated(x.desc, Size(heap[x.id]))
        /\ heap[x.id].tag = "dict" => x.desc.children = <<>>

C10_Witness ==
  /\ desc # <<>>
  /\ \E x \in Described(desc[1], arg.id, arg.depth) :
       /\ IsSequence(heap[x.id]) /\ x.depth = 1
       /\ Size(heap[x.id]) > MaxChildren
       /\ Len(x.desc.children[1]) = MaxChildren + 1
  /\ heap[arg.id].tag = "dict"

\* v is a sequence that is not empty, whose elements are all arrays of one
\* kind, and not all of them empty.
Homogeneous(v) ==
  /\ IsSequence(v) /\ Size(v) > 0
  /\ IsArray(heap[Elem(v, 1)])
  /\ \A i \in 1..Size(v) : heap[Elem(v, i)].tag = heap[Elem(v, 1)].tag
  /\ \E i \in 1..Size(v) : heap[Elem(v, i)].data # <<>>

\* C11: a descriptor has min/max/mean/std if and only if its value is a
\* non-empty numeric array or a sequence all of whose elements are numeric
\* arrays of the same kind; an empty array, a sequence mixing arrays with
\* other values, a mapping, a scalar and an opaque value have none.
C11_StatsIffNumeric ==
  desc # <<>> =>
    \A x \in Described(desc[1], arg.id, arg.depth) :
      x.desc.stats # <<>> <=>
        \/ IsArray(heap[x.id]) /\ heap[x.id].data # <<>>
        \/ Homogeneous(heap[x.id])

\* ------------------------------------------ _snapshot_value, call by call
\* The frame of one call _snapshot_value(v, key, depth), v the object id:
\* children holds what the comprehension of line 106 or 146 has built so far.
Call(id, key, depth) ==
  [id |-> id, key |-> key, depth |-> depth, children |-> <<>>]

\* The mutation of Recurses that still recurses at depth 0.
RecursesAtZero(v, depth) ==
  \/ v.tag = "dict" /\ depth >= 0 /\ Size(v) <= MaxChildren
  \/ IsSequence(v) /\ depth >= 0

\* The conditions of lines 105 and 144: the call recurses into v's elements.
Recurses(v, depth) ==
  \/ v.tag = "dict" /\ depth > 0 /\ Size(v) <= MaxChildren
  \/ IsSequence(v) /\ depth > 0

\* How many elements of v are recursed into (all of a dict, line 106; limit
\* of line 145 for a sequence), and the key the i-th one is given.
Limit(v) == IF v.tag = "dict" THEN Size(v) ELSE Min(Size(v), MaxChildren)
ChildKey(v, i) == IF v.tag = "dict" THEN DictKey(i) ELSE IndexKey(i)

TopCall == calls[Len(calls)]

\* The top frame has an element left to recurse into.
Pending(f) ==
  Recurses(heap[f.id], f.depth) /\ Len(f.children) < Limit(heap[f.id])

\* What the frame f returns (line 161).  The fields other than children do
\* not depend on depth, so they are those of the call at depth 0.
Returned(f) ==
  LET v == heap[f.id]
      own == SnapshotValue(f.id, f.key, 0)
  IN IF Recurses(v, f.depth)
     THEN [own EXCEPT !.children =
             <<f.children \o (IF IsSequence(v) /\ Size(v) > Limit(v)
                              THEN <<Sentinel(Size(v) - Limit(v))>>
                              ELSE <<>>)>>]
     ELSE own

\* Cyclic or shared small values: the top value is a mapping or a list of
\* up to MaxItems of the three objects (itself included), the second object
\* a leaf or a container of at most one of them, the third a tensor.
CyclicHeaps ==
  {<<top, mid, Leaf("tensor", <<1, 5>>)>> :
     top \in Containers({"dict", "list"}, MaxItems),
     mid \in {Leaf("scalar", <<7>>), Leaf("ndarray", <<2>>)}
             \cup Containers({"dict", "list"}, 1)}

WalkInit ==
  /\ heap \in CyclicHeaps
  /\ arg \in [id : {1}, depth : 0..DefaultDepth]
  /\ desc = <<>>
  /\ calls = <<>>
  /\ ProbeIdle

\* The call _snapshot_entry makes for a field (line 167).
EnterCall ==
  /\ desc = <<>> /\ calls = <<>> /\ arg.id # 0
  /\ calls' = <<Call(arg.id, "x", arg.depth)>>
  /\ UNCHANGED <<heap, arg, desc, probeVars>>

\* The recursive call on the next element (lines 106 and 146).
RecurseCall ==
  /\ calls # <<>> /\ Pending(TopCall)
  /\ LET f == TopCall
         i == Len(f.children) + 1
     IN calls' = Append(calls, Call(Elem(heap[f.id], i),
                                    ChildKey(heap[f.id], i), f.depth - 1))
  /\ UNCHANGED <<heap, arg, desc, probeVars>>

\* The return of the innermost call (line 161), to the comprehension of its
\* caller or, for the outermost call, to _snapshot_entry.
ReturnCall ==
  /\ calls # <<>> /\ ~Pending(TopCall)
  /\ IF Len(calls) = 1
     THEN /\ desc' = <<Returned(TopCall)>>
          /\ calls' = <<>>
     ELSE /\ calls' = [SubSeq(calls, 1, Len(calls) - 1) EXCEPT
                         ![Len(calls) - 1].children =
                           Append(@, Returned(TopCall))]
          /\ UNCHANGED desc
  /\ UNCHANGED <<heap, arg, probeVars>>

WalkNext ==
  \/ EnterCall
  \/ RecurseCall
  \/ ReturnCall

\* A call that was made runs: the interpreter executes it to its end unless
\* it never ends.
WalkSpec == WalkInit /\ [][WalkNext]_vars /\ WF_vars(WalkNext)

\* Levels of descriptors below d.
RECURSIVE Height(_)
Height(d) ==
  IF d.children = <<>> \/ d.children[1] = <<>> THEN 0
  ELSE LET hs == {Height(d.children[1][i]) : i \in 1..Len(d.children[1])}
       IN 1 + CHOOSE x \in hs : \A y \in hs : x >= y

\* The call-by-call run returns what the recursive definition computes.
WalkAgrees ==
  desc # <<>> => desc[1] = SnapshotValue(arg.id, "x", arg.depth)

\* C12: _snapshot_value(value, depth) returns for every input, cyclic
\* mappings and sequences included; the calls never nest deeper than depth
\* below the top call, and no descriptor of the result is nested more than
\* depth levels below the top-level one.
C12_TerminatesWithinDepth ==
  /\ <>(desc # <<>> /\ calls = <<>>)
  /\ [](Len(calls) <= arg.depth + 1)
  /\ [](desc # <<>> => Height(desc[1]) <= arg.depth)

C12_Witness ==
  /\ desc # <<>> /\ calls = <<>>
  /\ \E i \in 1..Len(heap[1].items) : heap[1].items[i] = 1
  /\ arg.depth = DefaultDepth
  /\ Height(desc[1]) = DefaultDepth

\* --------------------------------------------- strip and restore, by field
\* Dataset configs with every combination of the transforms field at params
\* level and at node level, of cache_dir and of recache being absent, null
\* or set, and datasets without params.
FieldCfgs ==
  {NodeCfg(TRUE, TRUE, pt, nt, cd, rc, "/old") :
     pt \in {NoT, NullT, TransVal("list", MaxStages)},
     nt \in {NoT, NullT, TransVal("ref", 1)},
     cd \in {"absent", "null", "/cache"},
     rc \in {"absent", "null", "true"}}
  \cup {NodeCfg(TRUE, FALSE, NoT, nt, "absent", "absent", "absent") :
          nt \in {NoT, NullT, TransVal("list", MaxStages)}}

\* A dataset alone, or a dataset wrapping one dataset; one of them has any
\* of the configs FieldCfgs, the other one of DatasetCfgs.
RestoreInit ==
  /\ tree \in TreeShapes(1) \cup TreeShapes(2)
  /\ cfg0 \in {c \in [Nodes -> FieldCfgs \cup DatasetCfgs] :
                 /\ WellFormed(c)
                 /\ \E n \in Nodes : \A m \in Nodes \ {n} : c[m] \in DatasetCfgs}
  /\ cfg = cfg0
  /\ request \in [path : Paths, overrides : {"/old" :> "/new"}]
  /\ NotStarted

RestoreSpec == RestoreInit /\ [][Next]_vars

\* The _probe_node call of node n is between the return of the resolver
\* call and the restore of lines 300-309.
BeforeRestore(n) ==
  \E j \in 1..Len(stack) : stack[j].node = n /\ stack[j].pc = "restore"

\* The transforms fields, cache_dir and recache of c and d are the same,
\* absent where absent and null where null.
SameFields(c, d) ==
  /\ c.ptrans = d.ptrans
  /\ c.ntrans = d.ntrans
  /\ c.cache_dir = d.cache_dir
  /\ c.recache = d.recache

\* C13: once the instantiation of a node has succeeded and lines 300-309
\* have run, that is before dataset[0] and before any stage, and from then
\* on, the node's transforms fields, cache_dir and recache are what they
\* were before stripping, whatever was present, absent or null.
C13_RestoredAfterInstantiation ==
  \A b \in built :
    b.ok /\ ~BeforeRestore(b.node) =>
      /\ pre[b.node] # <<>>
      /\ SameFields(cfg[b.node], pre[b.node][1])
      /\ SameFields(cfg[b.node], cfg0[b.node])

\* A node with a null cache_dir and a null recache next to a transforms
\* list was stripped (recache went to false), instantiated, restored, and
\* its last stage has been applied.
C13_Witness ==
  \E b \in built :
    /\ b.ok /\ b.node \in ended
    /\ cfg0[b.node].recache = "null" /\ cfg0[b.node].cache_dir = "null"
    /\ cfg0[b.node].ptrans.k = "list" /\ cfg0[b.node].ntrans.k = "null"
    /\ Len(applied[b.node]) = MaxStages
    /\ \E c \in b.nodes : c.node = b.node /\ c.recache = "false"

\* C14: when the resolver call of a node raises after the node's wrapped
\* dataset was probed without error, the result of the node carries an
\* error entry and the wrapped dataset's result as its innerResult; when
\* the node is the target, the report has that result.
C14_InitErrorKeepsInner ==
  \A b \in built :
    ~b.ok /\ b.inner # <<>> /\ Clean(b.inner[1]) /\ b.node \in ended =>
      /\ LET all == AllResults IN
           \A x \in 1..Len(all) :
             all[x][1] = b.node =>
               /\ HasErrorEntry(all[x][2])
               /\ all[x][2].innerResult = b.inner
      /\ b.node = target /\ output # <<>> => output[1].result # <<>>

====
